---- MODULE Spec2Model ----
(***************************************************************************)
(* Learning Path AI: the POST /generate pipeline                           *)
(*   generate (gemini_service) -> enhance (youtube_service)                *)
(*   -> insert (supabase_service) -> respond (routes).                     *)
(*                                                                         *)
(* Representation of Python values                                         *)
(*   str   : a sequence of words (what str.split() yields); "" is <<>>.    *)
(*           f-strings concatenate word sequences; a literal glued to a    *)
(*           placeholder without a space is glued onto its last word.      *)
(*   dict  : a record holding exactly the keys that are present.           *)
(*   list  : a sequence.                                                   *)
(*   a value that is not a dict where one is expected : NonDict.           *)
(***************************************************************************)
EXTENDS Integers, Sequences, FiniteSets, TLC

\* ---------------------------------------------------------------- bounds
\* longest "items" array the search provider answers with
MaxItems == 2
\* longest modules / recommendations / quiz arrays the text model emits
MaxModelModules == 4
MaxModelRecs == 3
MaxModelQuiz == 5

\* ------------------------------------------------------ program constants
TopicQueryLimit == 2
TopicQueryResults == 2
ModuleLimit == 3
ModuleQueryLimit == 1
SubtopicLimit == 2
SubtopicQueryLimit == 1
RecommendationTarget == 5
RecommendationCap == 5
MinModules == 2
MinRecommendations == 3
MinQuizQuestions == 5

\* ---------------------------------------------------------------- strings
Str(w) == <<w>>

\* f"{s}{lit}" : lit follows the placeholder without a space
Glue(s, lit) ==
  IF s = <<>> THEN <<lit>>
  ELSE SubSeq(s, 1, Len(s) - 1) \o <<s[Len(s)] \o lit>>

LowerWord(w) ==
  CASE w = "Rust" -> "rust"
    [] w = "Python" -> "python"
    [] w = "Programming" -> "programming"
    [] w = "Ownership" -> "ownership"
    [] w = "Borrowing" -> "borrowing"
    [] w = "Lifetimes" -> "lifetimes"
    [] w = "Traits" -> "traits"
    [] w = "Module" -> "module"
    [] w = "Unit" -> "unit"
    [] w = "Part" -> "part"
    [] w = "Syntax" -> "syntax"
    [] w = "Types" -> "types"
    [] w = "Scope" -> "scope"
    [] w = "Introduction" -> "introduction"
    [] w = "Intermediate" -> "intermediate"
    [] w = "Advanced" -> "advanced"
    [] w = "Foundations" -> "foundations"
    [] w = "Basics" -> "basics"
    [] w = "Fundamentals" -> "fundamentals"
    [] w = "Basic" -> "basic"
    [] w = "Principles" -> "principles"
    [] w = "Concepts" -> "concepts"
    [] w = "Practical" -> "practical"
    [] w = "Applications" -> "applications"
    [] w = "Expert" -> "expert"
    [] w = "Techniques" -> "techniques"
    [] w = "Optimization" -> "optimization"
    [] w = "Strategies" -> "strategies"
    [] w = "Best" -> "best"
    [] w = "Practices" -> "practices"
    [] OTHER -> w

\* str.lower()
Lower(s) == [i \in DOMAIN s |-> LowerWord(s[i])]

\* str.split()[-1]
LastWord(s) == <<s[Len(s)]>>

\* a value that is not a dict (a JSON number, string, null, ...)
NonDict == [nondict |-> TRUE]
IsDict(x) == "nondict" \notin DOMAIN x

\* dict.get(key, default)
Get(d, key, default) == IF key \in DOMAIN d THEN d[key] ELSE default

\* -------------------------------------------------- generator: fallbacks
\* the content built when no JSON can be found in the model's text
DefaultStructure(topic) ==
  [ modules |-> <<
      [ title |-> <<"Introduction", "to">> \o topic,
        subtopics |-> << <<"Basics", "of">> \o topic,
                         <<"Fundamentals", "of">> \o topic,
                         <<"Getting", "Started", "with">> \o topic,
                         <<"Core", "Concepts", "of">> \o topic,
                         <<"Overview", "of">> \o topic >> ],
      [ title |-> <<"Intermediate">> \o topic,
        subtopics |-> << <<"Advanced">> \o topic \o <<"Concepts">>,
                         topic \o <<"Best", "Practices">>,
                         <<"Real-world">> \o topic \o <<"Applications">>,
                         topic \o <<"Tools", "and", "Techniques">>,
                         <<"Problem", "Solving", "with">> \o topic >> ] >>,
    youtube_recommendations |-> <<
      [ title |-> <<"Learn">> \o topic,
        url |-> Str("https://youtube.com"),
        keywords |-> <<Lower(topic), Str("tutorial")>> ] >>,
    quiz_questions |-> <<
      [ question |-> <<"What", "is">> \o Glue(topic, "?"),
        options |-> <<Str("A"), Str("B"), Str("C"), Str("D")>>,
        correct_answer |-> Str("A") ] >> ]

\* the 3-module block substituted when fewer than 2 modules were parsed
RepairModules(topic) ==
  << [ title |-> <<"Foundations", "of">> \o topic,
       subtopics |-> << <<"Introduction", "to">> \o topic,
                        <<"Basic", "Principles">>,
                        <<"Core", "Components">>,
                        <<"Essential", "Tools">>,
                        <<"Getting", "Started">> >> ],
     [ title |-> <<"Intermediate">> \o topic,
       subtopics |-> << <<"Advanced", "Concepts">>,
                        <<"Practical", "Applications">>,
                        <<"Problem", "Solving">>,
                        <<"Best", "Practices">>,
                        <<"Real-world", "Examples">> >> ],
     [ title |-> <<"Advanced">> \o topic,
       subtopics |-> << <<"Expert", "Techniques">>,
                        <<"Optimization", "Strategies">>,
                        <<"Industry", "Applications">>,
                        <<"Cutting-edge", "Developments">>,
                        <<"Future", "Trends">> >> ] >>

\* the 5-item block substituted when fewer than 3 recommendations were parsed
RepairRecommendations(topic) ==
  << [ title |-> <<"Complete">> \o topic \o <<"Course", "for", "Beginners">>,
       url |-> Str("https://youtube.com/watch?v=beginner"),
       keywords |-> <<Lower(topic), Str("course"), Str("beginner")>> ],
     [ title |-> <<"Advanced">> \o topic \o <<"Tutorial">>,
       url |-> Str("https://youtube.com/watch?v=advanced"),
       keywords |-> <<Lower(topic), Str("tutorial"), Str("advanced")>> ],
     [ title |-> topic \o <<"Projects", "and", "Examples">>,
       url |-> Str("https://youtube.com/watch?v=projects"),
       keywords |-> <<Lower(topic), Str("projects"), Str("examples")>> ],
     [ title |-> topic \o <<"Tips", "and", "Tricks">>,
       url |-> Str("https://youtube.com/watch?v=tips"),
       keywords |-> <<Lower(topic), Str("tips"), Str("tricks")>> ],
     [ title |-> <<"Mastering">> \o topic,
       url |-> Str("https://youtube.com/watch?v=master"),
       keywords |-> <<Lower(topic), Str("master"), Str("expert")>> ] >>

\* f"To solve {topic}-related problems"
SolveOption(topic) == <<"To", "solve">> \o Glue(topic, "-related") \o <<"problems">>

\* questions 2..10 of every fallback quiz block (the same text at
\* gemini_service.py 224-268, 324-368 and 422-466)
FallbackQuizTail(topic) ==
  << [ question |-> <<"Which", "of", "these", "is", "a", "fundamental", "concept", "in">>
                      \o Glue(topic, "?"),
       options |-> << <<"Core", "principle", "1">>, <<"Random", "concept">>,
                      <<"Irrelevant", "topic">>, <<"Unrelated", "field">> >>,
       correct_answer |-> <<"Core", "principle", "1">> ],
     [ question |-> <<"What", "is", "an", "important", "skill", "in">> \o Glue(topic, "?"),
       options |-> << <<"Key", "skill">>, <<"Unrelated", "ability">>,
                      <<"Irrelevant", "knowledge">>, <<"Random", "talent">> >>,
       correct_answer |-> <<"Key", "skill">> ],
     [ question |-> <<"What", "tool", "is", "commonly", "used", "in">> \o Glue(topic, "?"),
       options |-> << <<"Essential", "tool">>, <<"Unrelated", "software">>,
                      <<"Irrelevant", "application">>, <<"Random", "program">> >>,
       correct_answer |-> <<"Essential", "tool">> ],
     [ question |-> <<"What", "is", "a", "benefit", "of", "learning">> \o Glue(topic, "?"),
       options |-> << <<"Key", "benefit">>, <<"Unrelated", "advantage">>,
                      <<"Irrelevant", "gain">>, <<"Random", "improvement">> >>,
       correct_answer |-> <<"Key", "benefit">> ],
     [ question |-> <<"What", "is", "a", "common", "challenge", "in">> \o Glue(topic, "?"),
       options |-> << <<"Typical", "difficulty">>, <<"Unrelated", "obstacle">>,
                      <<"Irrelevant", "problem">>, <<"Random", "issue">> >>,
       correct_answer |-> <<"Typical", "difficulty">> ],
     [ question |-> <<"What", "is", "an", "advanced", "technique", "in">> \o Glue(topic, "?"),
       options |-> << <<"Expert", "method">>, <<"Basic", "approach">>,
                      <<"Simple", "technique">>, <<"Elementary", "strategy">> >>,
       correct_answer |-> <<"Expert", "method">> ],
     [ question |-> <<"What", "is", "a", "best", "practice", "in">> \o Glue(topic, "?"),
       options |-> << <<"Recommended", "approach">>, <<"Outdated", "method">>,
                      <<"Inefficient", "technique">>, <<"Poor", "strategy">> >>,
       correct_answer |-> <<"Recommended", "approach">> ],
     [ question |-> <<"What", "is", "a", "real-world", "application", "of">> \o Glue(topic, "?"),
       options |-> << <<"Practical", "use", "case">>, <<"Theoretical", "concept">>,
                      <<"Academic", "exercise">>, <<"Hypothetical", "scenario">> >>,
       correct_answer |-> <<"Practical", "use", "case">> ],
     [ question |-> <<"What", "is", "the", "future", "of">> \o Glue(topic, "?"),
       options |-> << <<"Emerging", "trend">>, <<"Declining", "field">>,
                      <<"Stagnant", "area">>, <<"Obsolete", "technology">> >>,
       correct_answer |-> <<"Emerging", "trend">> ] >>

\* RepairQuizQuestions without its first question
RepairQuizQuestions_short(topic) == FallbackQuizTail(topic)

\* the 10-item block substituted when fewer than 5 quiz questions were parsed
RepairQuizQuestions(topic) ==
  << [ question |-> <<"What", "is", "the", "primary", "purpose", "of">> \o Glue(topic, "?"),
       options |-> << SolveOption(topic), <<"To", "create", "art">>,
                      <<"To", "play", "games">>, <<"To", "browse", "the", "internet">> >>,
       correct_answer |-> SolveOption(topic) ] >>
  \o FallbackQuizTail(topic)

\* the content returned from the asyncio.TimeoutError handler
TimeoutFallback(topic) ==
  [ modules |-> <<
      [ title |-> <<"Introduction", "to">> \o topic,
        subtopics |-> << <<"Basics", "of">> \o topic,
                         <<"Fundamentals", "of">> \o topic,
                         <<"Getting", "Started", "with">> \o topic,
                         <<"Core", "Concepts", "of">> \o topic,
                         <<"Overview", "of">> \o topic >> ],
      [ title |-> <<"Intermediate">> \o topic,
        subtopics |-> << <<"Advanced">> \o topic \o <<"Concepts">>,
                         topic \o <<"Best", "Practices">>,
                         <<"Real-world">> \o topic \o <<"Applications">>,
                         topic \o <<"Tools", "and", "Techniques">>,
                         <<"Problem", "Solving", "with">> \o topic >> ],
      [ title |-> <<"Advanced">> \o topic,
        subtopics |-> << <<"Expert", "Techniques">>,
                         <<"Optimization", "Strategies">>,
                         <<"Industry", "Applications">>,
                         <<"Cutting-edge", "Developments">>,
                         <<"Future", "Trends">> >> ] >>,
    youtube_recommendations |-> <<
      [ title |-> <<"Complete">> \o topic \o <<"Tutorial", "for", "Beginners">>,
        url |-> Str("https://youtube.com"),
        keywords |-> <<Lower(topic), Str("tutorial"), Str("beginner")>> ],
      [ title |-> <<"Advanced">> \o topic \o <<"Techniques">>,
        url |-> Str("https://youtube.com"),
        keywords |-> <<Lower(topic), Str("advanced"), Str("techniques")>> ],
      [ title |-> topic \o <<"Projects", "and", "Examples">>,
        url |-> Str("https://youtube.com"),
        keywords |-> <<Lower(topic), Str("projects"), Str("examples")>> ],
      [ title |-> topic \o <<"Tips", "and", "Tricks">>,
        url |-> Str("https://youtube.com"),
        keywords |-> <<Lower(topic), Str("tips"), Str("tricks")>> ],
      [ title |-> <<"Mastering">> \o topic,
        url |-> Str("https://youtube.com"),
        keywords |-> <<Lower(topic), Str("master"), Str("expert")>> ] >>,
    quiz_questions |->
      << [ question |-> <<"What", "is">> \o topic \o <<"primarily", "used", "for?">>,
           options |-> << SolveOption(topic), <<"To", "create", "art">>,
                          <<"To", "play", "games">>, <<"To", "browse", "the", "internet">> >>,
           correct_answer |-> SolveOption(topic) ] >>
      \o FallbackQuizTail(topic) ]

\* the content returned from the generic "except Exception" handler
ErrorFallback(topic) ==
  [ modules |-> <<
      [ title |-> <<"Introduction", "to">> \o topic,
        subtopics |-> << <<"Basics", "of">> \o topic,
                         <<"Fundamentals", "of">> \o topic,
                         <<"Getting", "Started", "with">> \o topic,
                         <<"Core", "Concepts", "of">> \o topic,
                         <<"Overview", "of">> \o topic >> ],
      [ title |-> <<"Intermediate">> \o topic,
        subtopics |-> << <<"Advanced">> \o topic \o <<"Concepts">>,
                         topic \o <<"Best", "Practices">>,
                         <<"Real-world">> \o topic \o <<"Applications">>,
                         topic \o <<"Tools", "and", "Techniques">>,
                         <<"Problem", "Solving", "with">> \o topic >> ],
      [ title |-> <<"Advanced">> \o topic,
        subtopics |-> << <<"Expert", "Techniques">>,
                         <<"Optimization", "Strategies">>,
                         <<"Industry", "Applications">>,
                         <<"Cutting-edge", "Developments">>,
                         <<"Future", "Trends">> >> ] >>,
    youtube_recommendations |-> <<
      [ title |-> <<"Complete">> \o topic \o <<"Tutorial", "for", "Beginners">>,
        url |-> Str("https://youtube.com"),
        keywords |-> <<Lower(topic), Str("tutorial"), Str("beginner")>> ],
      [ title |-> <<"Advanced">> \o topic \o <<"Techniques">>,
        url |-> Str("https://youtube.com"),
        keywords |-> <<Lower(topic), Str("advanced"), Str("techniques")>> ],
      [ title |-> topic \o <<"Projects", "and", "Examples">>,
        url |-> Str("https://youtube.com"),
        keywords |-> <<Lower(topic), Str("projects"), Str("examples")>> ],
      [ title |-> topic \o <<"Tips", "and", "Tricks">>,
        url |-> Str("https://youtube.com"),
        keywords |-> <<Lower(topic), Str("tips"), Str("tricks")>> ],
      [ title |-> <<"Mastering">> \o topic,
        url |-> Str("https://youtube.com"),
        keywords |-> <<Lower(topic), Str("master"), Str("expert")>> ] >>,
    quiz_questions |->
      << [ question |-> <<"What", "is">> \o topic \o <<"primarily", "used", "for?">>,
           options |-> << SolveOption(topic), <<"To", "create", "art">>,
                          <<"To", "play", "games">>, <<"To", "browse", "the", "internet">> >>,
           correct_answer |-> SolveOption(topic) ] >>
      \o FallbackQuizTail(topic) ]

\* ------------------------------------------------ generator: model output
\* The text the model answers with, by what json.loads and re.search make of
\* it:  form "json"    the whole text is one JSON value;
\*      form "wrapped" prose around one brace-delimited span that is JSON;
\*      form "broken"  a brace-delimited span that is not JSON;
\*      form "prose"   no brace-delimited span at all.
\* value is the JSON value of the text or of its span.  A JSON value is an
\* object or not; of an object only the three keys the program reads matter,
\* each absent ("absent"), a value without a length such as a number or null
\* ("nonsized"), or an array ("list").
Absent == [k |-> "absent", items |-> <<>>]
NonSized == [k |-> "nonsized", items |-> <<>>]
AsList(seq) == [k |-> "list", items |-> seq]
NonObject == [isObject |-> FALSE, modules |-> Absent,
              youtube_recommendations |-> Absent, quiz_questions |-> Absent]

\* json.loads(response.text)
JsonLoads(text) == [ok |-> text.form = "json", value |-> text.value]

\* re.search(r'\{.*\}', response.text, re.DOTALL)
ReSearch(text) == text.form \in {"wrapped", "broken"}

\* json.loads(json_match.group())
JsonLoadsSpan(text) == [ok |-> text.form = "wrapped", value |-> text.value]

\* the parse step: raised is a JSONDecodeError leaving the handler
ParseResponse(topic, text) ==
  IF JsonLoads(text).ok
  THEN [raised |-> FALSE, content |-> JsonLoads(text).value]
  ELSE IF ReSearch(text)
       THEN IF JsonLoadsSpan(text).ok
            THEN [raised |-> FALSE, content |-> JsonLoadsSpan(text).value]
            ELSE [raised |-> TRUE, content |-> NonObject]
       ELSE [raised |-> FALSE,
             content |-> [isObject |-> TRUE,
                          modules |-> AsList(DefaultStructure(topic).modules),
                          youtube_recommendations |->
                            AsList(DefaultStructure(topic).youtube_recommendations),
                          quiz_questions |->
                            AsList(DefaultStructure(topic).quiz_questions)]]

\* len(content[key]) raises TypeError
LenRaises(v) == v.k = "nonsized"

\* key not in content or len(content[key]) < least
TooFew(v, least) == v.k = "absent" \/ Len(v.items) < least

\* "Ensure we have the required number of items": the three replacements in
\* source order; raised is a TypeError ("in" or item assignment on a value
\* that is not an object, len of a value without a length)
EnsureItems(topic, c) ==
  IF ~c.isObject THEN [raised |-> TRUE, content |-> ErrorFallback(topic)]
  ELSE IF LenRaises(c.modules)
       THEN [raised |-> TRUE, content |-> ErrorFallback(topic)]
  ELSE IF LenRaises(c.youtube_recommendations)
       THEN [raised |-> TRUE, content |-> ErrorFallback(topic)]
  ELSE IF LenRaises(c.quiz_questions)
       THEN [raised |-> TRUE, content |-> ErrorFallback(topic)]
  ELSE [raised |-> FALSE,
        content |->
          [modules |-> IF TooFew(c.modules, MinModules)
                       THEN RepairModules(topic) ELSE c.modules.items,
           youtube_recommendations |->
             IF TooFew(c.youtube_recommendations, MinRecommendations)
             THEN RepairRecommendations(topic)
             ELSE c.youtube_recommendations.items,
           quiz_questions |->
             IF TooFew(c.quiz_questions, MinQuizQuestions)
             THEN RepairQuizQuestions(topic) ELSE c.quiz_questions.items]]

\* generate_learning_path_content(topic); gen is what the model call does:
\*   kind "unreachable"  configure_gemini or generate_content raises,
\*   kind "timeout"      asyncio.wait_for gives up after 90 s,
\*   kind "text"         the model answers with gen.text.
generate_learning_path_content(topic, gen) ==
  CASE gen.kind = "timeout" -> TimeoutFallback(topic)
    [] gen.kind = "unreachable" -> ErrorFallback(topic)
    [] OTHER ->
         LET parsed == ParseResponse(topic, gen.text)
         IN IF parsed.raised THEN ErrorFallback(topic)
            ELSE EnsureItems(topic, parsed.content).content

\* ------------------------------------------------------- search client
Min(a, b) == IF a <= b THEN a ELSE b

\* list[:n] for n >= 0
Take(seq, n) == SubSeq(seq, 1, Min(n, Len(seq)))

RECURSIVE JoinWords(_)
JoinWords(s) ==
  IF s = <<>> THEN ""
  ELSE IF Len(s) = 1 THEN s[1] ELSE s[1] \o "+" \o JoinWords(Tail(s))

\* What the provider ranks for a query.  The catalog fixes how video ids
\* relate to queries: "distinct" no two (query, rank) pairs share a video,
\* "byrank" every query is answered with the same ranked videos, "bylast"
\* queries ending in the same word are answered with the same ranked videos.
\* Titles always differ from query to query.
Catalogs == {"distinct", "byrank", "bylast"}

VideoId(catalog, query, rank) ==
  CASE catalog = "distinct" -> JoinWords(query) \o "-" \o ToString(rank)
    [] catalog = "byrank" -> "v" \o ToString(rank)
    [] OTHER -> query[Len(query)] \o "-" \o ToString(rank)

\* one well-formed element of the provider's "items" array
CatalogItem(catalog, query, rank) ==
  [ snippet |-> [ title |-> <<"Video", ToString(rank), "on">> \o query ],
    id |-> [ videoId |-> VideoId(catalog, query, rank) ] ]

\* an element of "items" without its snippet
MalformedItem == [ id |-> [ videoId |-> "x" ] ]

\* the answers the provider can give to one GET: a transport failure or
\* timeout, a status other than 200, a body that is not JSON, a JSON body
\* that is not an object, an object without "items", or an object whose
\* items are the first n ranked videos, the one at position bad (if any)
\* malformed
ProviderResponses(catalog, query) ==
  { [transport |-> t, status |-> 200, body |-> "dict", hasItems |-> FALSE, items |-> <<>>] :
      t \in {"error", "timeout"} }
  \cup { [transport |-> "ok", status |-> 403, body |-> "dict", hasItems |-> FALSE, items |-> <<>>] }
  \cup { [transport |-> "ok", status |-> 200, body |-> b, hasItems |-> FALSE, items |-> <<>>] :
      b \in {"notjson", "notdict", "dict"} }
  \cup { [transport |-> "ok", status |-> 200, body |-> "dict", hasItems |-> TRUE,
          items |-> [r \in 1..n |-> IF r = bad THEN MalformedItem
                                    ELSE CatalogItem(catalog, query, r)]] :
         n \in 0..MaxItems, bad \in 0..MaxItems }

\* without an API key no request is sent
NotSent == [transport |-> "unsent", status |-> 0, body |-> "dict", hasItems |-> FALSE,
            items |-> <<>>]

\* what can come back to one call of search_youtube_videos
CallResponses(key, catalog, query) ==
  IF key THEN ProviderResponses(catalog, query) ELSE {NotSent}

WellFormedItem(item) == "snippet" \in DOMAIN item /\ "id" \in DOMAIN item

\* the body of the try block of search_youtube_videos: exc is an exception
\* raised inside it (requests.get, response.json, data.get, item[...])
SearchTry(max_results, resp) ==
  IF resp.transport # "ok" THEN [exc |-> TRUE, videos |-> <<>>]
  ELSE IF resp.status # 200 THEN [exc |-> FALSE, videos |-> <<>>]
  ELSE IF resp.body # "dict" THEN [exc |-> TRUE, videos |-> <<>>]
  ELSE LET items == Take(IF resp.hasItems THEN resp.items ELSE <<>>, max_results)
       IN IF \E i \in DOMAIN items : ~WellFormedItem(items[i])
          THEN [exc |-> TRUE, videos |-> <<>>]
          ELSE [exc |-> FALSE,
                videos |-> [i \in DOMAIN items |->
                   [ title |-> items[i].snippet.title,
                     url |-> Str("https://www.youtube.com/watch?v=" \o items[i].id.videoId) ]]]

\* search_youtube_videos with a handler that lets the exception through
search_youtube_videos_uncaught(key, max_results, resp) ==
  IF ~key THEN [raised |-> FALSE, videos |-> <<>>]
  ELSE LET r == SearchTry(max_results, resp)
       IN IF r.exc THEN [raised |-> TRUE, videos |-> <<>>]
          ELSE [raised |-> FALSE, videos |-> r.videos]

\* search_youtube_videos(query, max_results): raised is an exception that
\* reaches the caller.  Of a video record only title and url are modelled;
\* description, channel, published_at and thumbnails are not read again.
search_youtube_videos(key, max_results, resp) ==
  IF ~key THEN [raised |-> FALSE, videos |-> <<>>]
  ELSE LET r == SearchTry(max_results, resp)
       IN IF r.exc THEN [raised |-> FALSE, videos |-> <<>>]
          ELSE [raised |-> FALSE, videos |-> r.videos]

\* ------------------------------------------------------------- enhancer
topic_queries(topic) ==
  << topic \o <<"complete", "tutorial">>,
     topic \o <<"course", "for", "beginners">>,
     topic \o <<"fundamentals">> >>

module_queries(topic, module_title) ==
  << module_title \o <<"explained">>,
     module_title \o <<"tutorial">> \o topic,
     topic \o module_title >>

subtopic_queries(topic, subtopic) ==
  << subtopic \o topic \o <<"tutorial">>,
     topic \o subtopic \o <<"explained">> >>

fill_query(topic) == topic \o <<"advanced", "tutorial">>

\* the recommendation appended for one video
Recommendation(video, keywords) ==
  [ title |-> video.title, url |-> video.url, keywords |-> keywords ]

Recommendations(videos, keywords) ==
  [i \in DOMAIN videos |-> Recommendation(videos[i], keywords)]

topic_keywords(topic, query) == <<Lower(topic), LastWord(query), Str("tutorial")>>
module_keywords(topic, module_title) == <<Lower(topic), Lower(module_title), Str("module")>>
subtopic_keywords(topic, subtopic) == <<Lower(topic), Lower(subtopic), Str("concept")>>
fill_keywords(topic) == <<Lower(topic), Str("advanced"), Str("tutorial")>>

\* Unique keeping the last entry of each url instead of the first
Unique_keeplast(recs, seen_urls) ==
  LET kept == { i \in DOMAIN recs :
                  /\ recs[i].url \notin seen_urls
                  /\ \A j \in (i + 1)..Len(recs) : recs[j].url # recs[i].url }
  IN [k \in 1..Cardinality(kept) |->
        recs[CHOOSE i \in kept : Cardinality({ j \in kept : j <= i }) = k]]

\* "Deduplicate recommendations based on URL": first occurrence of each url
RECURSIVE Unique(_, _)
Unique(recs, seen_urls) ==
  IF recs = <<>> THEN <<>>
  ELSE IF Head(recs).url \in seen_urls
       THEN Unique(Tail(recs), seen_urls)
       ELSE <<Head(recs)>> \o Unique(Tail(recs), seen_urls \cup {Head(recs).url})

unique_recommendations(recs) == Unique(recs, {})

\* final_recommendations with the slice [1:6]
final_recommendations_offbyone(recs) ==
  SubSeq(unique_recommendations(recs), 2, Min(RecommendationCap + 1, Len(unique_recommendations(recs))))

\* unique_recommendations[:5]
final_recommendations(recs) == Take(unique_recommendations(recs), RecommendationCap)

\* ReplaceRecommendations without the test for an empty result
ReplaceRecommendations_always(path, recs) ==
  [path EXCEPT !.youtube_recommendations = final_recommendations(recs)]

\* ReplaceRecommendations applying the limit of 5 to the quiz as well
ReplaceRecommendations_capquiz(path, recs) ==
  IF final_recommendations(recs) # <<>>
  THEN [path EXCEPT !.youtube_recommendations = final_recommendations(recs),
                    !.quiz_questions = Take(@, RecommendationCap)]
  ELSE path

\* "If we found real videos, replace the generated ones"
ReplaceRecommendations(path, recs) ==
  IF final_recommendations(recs) # <<>>
  THEN [path EXCEPT !.youtube_recommendations = final_recommendations(recs)]
  ELSE path

\* --------------------------------------------------- persistence store
MockId == Str("mock-id")
NoUser == <<>>

\* x or []
OrEmptyList(x) == IF x = <<>> THEN <<>> ELSE x

\* MockRecord with the id taken from user_id
MockRecord_wrongid(topic, modules, youtube_recommendations, quiz_questions, user_id) ==
  [ id |-> user_id,
    topic |-> topic,
    modules |-> modules,
    youtube_recommendations |-> OrEmptyList(youtube_recommendations),
    quiz_questions |-> OrEmptyList(quiz_questions),
    user_id |-> user_id ]

\* the stand-in record returned when the insert yields no data or raises
MockRecord(topic, modules, youtube_recommendations, quiz_questions, user_id) ==
  [ id |-> MockId,
    topic |-> topic,
    modules |-> modules,
    youtube_recommendations |-> OrEmptyList(youtube_recommendations),
    quiz_questions |-> OrEmptyList(quiz_questions),
    user_id |-> user_id ]

\* insert_learning_path(...); outcome is what the store does with the insert:
\* "ok" it answers with the inserted row (id new_id), "nodata" it answers
\* without data, "error" creating the client or the call raises
insert_learning_path(topic, modules, youtube_recommendations, quiz_questions, user_id, outcome, new_id) ==
  IF outcome = "ok"
  THEN [ id |-> new_id,
         topic |-> topic,
         modules |-> modules,
         youtube_recommendations |-> OrEmptyList(youtube_recommendations),
         quiz_questions |-> OrEmptyList(quiz_questions),
         user_id |-> user_id ]
  ELSE MockRecord(topic, modules, youtube_recommendations, quiz_questions, user_id)

\* ------------------------------------------------------ response schema
\* class Module(BaseModel)
ValidModule(m) == IsDict(m) /\ {"title", "subtopics"} \subseteq DOMAIN m

\* class YouTubeRecommendation(BaseModel)
ValidRecommendation(r) == IsDict(r) /\ {"title", "url", "keywords"} \subseteq DOMAIN r

\* class QuizQuestion(BaseModel)
ValidQuizQuestion(q) ==
  IsDict(q) /\ {"question", "options", "correct_answer"} \subseteq DOMAIN q

\* class LearningPathResponse(BaseModel): construction succeeds
ValidLearningPathResponse(modules, youtube_recommendations, quiz_questions) ==
  /\ \A i \in DOMAIN modules : ValidModule(modules[i])
  /\ \A i \in DOMAIN youtube_recommendations :
        ValidRecommendation(youtube_recommendations[i])
  /\ \A i \in DOMAIN quiz_questions : ValidQuizQuestion(quiz_questions[i])

\* ------------------------------------------------- inputs of the model
Topics == { <<"Rust">>, <<"Python", "Programming">> }

ModelModule(i) ==
  [ title |-> <<"Unit", ToString(i)>>,
    subtopics |-> << <<"Part", ToString(i) \o "a">>,
                     <<"Part", ToString(i) \o "b">>,
                     <<"Part", ToString(i) \o "c">> >> ]

ModelRecommendation(i) ==
  [ title |-> <<"Clip", ToString(i)>>,
    url |-> Str("https://youtube.com/watch?v=m" \o ToString(i)),
    keywords |-> <<Str("clip")>> ]

ModelQuizQuestion(i) ==
  [ question |-> <<"Question", ToString(i) \o "?">>,
    options |-> <<Str("A"), Str("B"), Str("C"), Str("D")>>,
    correct_answer |-> Str("A") ]

\* an array of n elements: all well shaped ("ok"), the last one not a dict
\* ("scalar"), the last one a dict lacking a key ("partial"), or all
\* recommendations carrying one url ("sameurl")
ModelList(n, shape, elems, partial) ==
  [i \in 1..n |->
     IF i = n /\ shape = "scalar" THEN NonDict
     ELSE IF i = n /\ shape = "partial" THEN partial
     ELSE elems[i]]

ModelModules == [i \in 1..MaxModelModules |-> ModelModule(i)]
ModelRecommendations == [i \in 1..MaxModelRecs |-> ModelRecommendation(i)]
ModelQuizQuestions == [i \in 1..MaxModelQuiz |-> ModelQuizQuestion(i)]

SameUrl(recs) == [i \in DOMAIN recs |-> [recs[i] EXCEPT !.url = Str("https://youtube.com")]]

\* modules whose titles and subtopics repeat one another: a subtopic equal
\* to its module's title, a title equal to an earlier module's title, a
\* title equal to an earlier subtopic, a subtopic equal to an earlier one
OverlapModules ==
  << [ title |-> Str("Basics"),
       subtopics |-> <<Str("Basics"), Str("Syntax"), Str("Types")>> ],
     [ title |-> Str("Basics"),
       subtopics |-> <<Str("Syntax"), Str("Scope")>> ],
     [ title |-> Str("Syntax"),
       subtopics |-> <<Str("Scope"), Str("Traits")>> ] >>

\* modules with an empty title and an empty subtopic
GapModules ==
  << [ title |-> <<>>,
       subtopics |-> << <<>>, Str("Scope"), Str("Types") >> ],
     [ title |-> Str("Basics"),
       subtopics |-> << Str("Syntax"), <<>> >> ] >>

ModuleLists ==
  { ModelList(n, sh, ModelModules, [subtopics |-> <<Str("Loose")>>]) :
      n \in 0..MaxModelModules, sh \in {"ok", "scalar", "partial"} }
  \cup {OverlapModules, GapModules}

RecommendationLists ==
  { ModelList(n, sh, ModelRecommendations, [title |-> Str("Bare"), url |-> Str("https://youtube.com/bare")]) :
      n \in 0..MaxModelRecs, sh \in {"ok", "partial"} }
  \cup { SameUrl(ModelList(n, "ok", ModelRecommendations, NonDict)) : n \in 0..MaxModelRecs }

QuizLists ==
  { ModelList(n, sh, ModelQuizQuestions, [question |-> Str("Open?"), options |-> <<>>]) :
      n \in 0..MaxModelQuiz, sh \in {"ok", "partial"} }

ModelValues(lists) == {Absent, NonSized} \cup { AsList(l) : l \in lists }

ModelObjects ==
  [ isObject : {TRUE},
    modules : ModelValues(ModuleLists),
    youtube_recommendations : ModelValues(RecommendationLists),
    quiz_questions : ModelValues(QuizLists) ]

ModelTexts ==
  { [form |-> f, value |-> v] : f \in {"json", "wrapped"}, v \in ModelObjects }
  \cup { [form |-> f, value |-> NonObject] : f \in {"json", "prose", "broken"} }

NoText == [form |-> "prose", value |-> NonObject]

\* what the call of the text model can do
GenOutcomes ==
  { [kind |-> k, text |-> NoText] : k \in {"unreachable", "timeout"} }
  \cup { [kind |-> "text", text |-> t] : t \in ModelTexts }

\* the model is unreachable, times out, or answers with text in which no
\* JSON is found
GeneratorFails(g) ==
  g.kind \in {"unreachable", "timeout"}
  \/ (g.kind = "text" /\ g.text.form \in {"prose", "broken"})

\* a complete, well shaped answer of the text model
GoodText ==
  [ form |-> "json",
    value |-> [ isObject |-> TRUE,
                modules |-> AsList(ModelList(2, "ok", ModelModules, NonDict)),
                youtube_recommendations |->
                  AsList(ModelList(3, "ok", ModelRecommendations, NonDict)),
                quiz_questions |-> AsList(ModelList(5, "ok", ModelQuizQuestions, NonDict)) ] ]

\* ---------------------------------------------------------------- state
VARIABLES
  topic,                    \* request.topic
  gen,                      \* what the text model does for this request
  api_key,                  \* YOUTUBE_API_KEY is set
  catalog,                  \* what the search provider ranks
  pc,                       \* position of the request handler
  generated_content,        \* routes: generated_content
  learning_path,            \* routes: learning_path / enhanced_learning_path
  searched_keywords,        \* enhance: searched_keywords
  enhanced_recommendations, \* enhance: enhanced_recommendations
  qi, mi, si,               \* enhance: loop positions (query, module, subtopic)
  search_calls,             \* the search calls issued, in order
  store,                    \* rows of table learning_paths
  insert_calls,             \* the data handed to the store, in order
  stored_path,              \* routes: stored_path
  response,                 \* the HTTP response
  active_requests,          \* metrics: gauge active_requests
  metrics,                  \* metrics: the three counters
  lastSearch,               \* the last stand-alone search call and its result
  fetched,                  \* the last GET /learning-path/{id} and its answer
  running,                  \* the request whose handler is executing
  suspended,                \* the locals of the requests that are not executing
  disconnected              \* the client of the request has gone away

env == <<topic, gen, api_key, catalog>>
enh == <<searched_keywords, enhanced_recommendations, qi, mi, si>>
persisted == <<store, insert_calls, stored_path>>
others == <<fetched, running, suspended, disconnected>>
vars == <<topic, gen, api_key, catalog, pc, generated_content, learning_path,
          searched_keywords, enhanced_recommendations, qi, mi, si, search_calls,
          store, insert_calls, stored_path, response, active_requests, metrics,
          lastSearch, fetched, running, suspended, disconnected>>

None == [none |-> TRUE]
NoResponse == [status |-> 0]
NoSearch == [query |-> <<>>, max_results |-> 0, key |-> FALSE, resp |-> None,
             raised |-> FALSE, videos |-> <<>>, done |-> FALSE]
NoFetch == [path_id |-> <<>>, outcome |-> "none", known |-> FALSE, raised |-> FALSE,
            record |-> None, response |-> NoResponse, done |-> FALSE]

InitRest ==
  /\ pc = "idle"
  /\ generated_content = None
  /\ learning_path = None
  /\ searched_keywords = {}
  /\ enhanced_recommendations = <<>>
  /\ qi = 0 /\ mi = 0 /\ si = 0
  /\ search_calls = <<>>
  /\ store = <<>>
  /\ insert_calls = <<>>
  /\ stored_path = None
  /\ response = NoResponse
  /\ active_requests = 0
  /\ metrics = [learning_paths_generated |-> 0,
                youtube_recommendations_requested |-> 0,
                quiz_questions_generated |-> 0]
  /\ lastSearch = NoSearch
  /\ fetched = NoFetch
  /\ disconnected = FALSE

\* one request, nothing else in flight
Alone == running = 1 /\ suspended = <<>>

\* a complete answer of the text model with the given modules
TextWithModules(modules) ==
  [GoodText EXCEPT !.value.modules = AsList(modules)]

\* what the text model does in the search scenarios: two ways of failing,
\* a well shaped answer, and answers with repeated or empty titles
SearchScenarioOutcomes ==
  { [kind |-> "timeout", text |-> NoText],
    [kind |-> "text", text |-> NoText],
    [kind |-> "text", text |-> GoodText],
    [kind |-> "text", text |-> TextWithModules(OverlapModules)],
    [kind |-> "text", text |-> TextWithModules(GapModules)] }

\* The request and its environment.  Either the search key is not configured
\* and the text model may do anything, or the key is configured, the
\* provider may answer anything, and the text model times out, answers
\* with prose or answers well.
Init ==
  /\ \/ /\ api_key = FALSE
        /\ catalog = "distinct"
        /\ topic = <<"Python", "Programming">>
        /\ gen \in GenOutcomes
     \/ /\ api_key = TRUE
        /\ catalog \in Catalogs
        /\ topic = <<"Rust">>
        /\ gen \in SearchScenarioOutcomes
  /\ InitRest
  /\ Alone

\* -------------------------------------------------------------- actions
\* Modules without the limit of 3
Modules_unlimited(path) == Get(path, "modules", <<>>)

\* modules[:3]
Modules(path) == Take(Get(path, "modules", <<>>), ModuleLimit)

\* Subtopics without the limit of 2
Subtopics_unlimited(module) == Get(module, "subtopics", <<>>)

\* subtopics[:2]
Subtopics(module) == Take(Get(module, "subtopics", <<>>), SubtopicLimit)

\* where the loops of enhance stand next: <<pc, mi, si>>
AfterModule(path, m) ==
  IF m < Len(Modules(path)) THEN <<"title", m + 1, 0>> ELSE <<"fill", 0, 0>>

\* AfterTitle with the subtopics of a module without title left out
AfterTitle_skipuntitled(path, m) ==
  IF Get(Modules(path)[m], "title", <<>>) # <<>>
     /\ Len(Subtopics(Modules(path)[m])) >= 1
  THEN <<"subtopic", m, 1>>
  ELSE AfterModule(path, m)

AfterTitle(path, m) ==
  IF Len(Subtopics(Modules(path)[m])) >= 1 THEN <<"subtopic", m, 1>>
  ELSE AfterModule(path, m)

\* AfterSubtopic going through the same module again after its last subtopic
AfterSubtopic_samemodule(path, m, k) ==
  IF k < Len(Subtopics(Modules(path)[m])) THEN <<"subtopic", m, k + 1>>
  ELSE <<"title", m, 0>>

\* youtube_service 138, 116: the next subtopic, or the next module
AfterSubtopic(path, m, k) ==
  IF k < Len(Subtopics(Modules(path)[m])) THEN <<"subtopic", m, k + 1>>
  ELSE AfterModule(path, m)

SearchCall(kind, module, keyword, query, max_results) ==
  [kind |-> kind, module |-> module, keyword |-> keyword, query |-> query,
   max_results |-> max_results]

\* RaiseServerError with the gauge decremented on the success path only
RaiseServerError_nofinally ==
  /\ response' = [status |-> 500]
  /\ active_requests' = active_requests
  /\ pc' = "done"

\* "except Exception" and "finally" of generate_learning_path
RaiseServerError ==
  /\ response' = [status |-> 500]
  /\ active_requests' = active_requests - 1
  /\ pc' = "done"

\* routes 39-43: the handler is entered
ReceiveRequest ==
  /\ pc = "idle"
  /\ active_requests' = active_requests + 1
  /\ pc' = "generate"
  /\ UNCHANGED <<env, others, generated_content, learning_path, enh, search_calls,
                 persisted, response, metrics, lastSearch>>

\* routes 47-55, youtube_service 89-101: the generation call returns, the
\* path record is built and enhance is entered
Generate ==
  /\ pc = "generate"
  /\ LET content == generate_learning_path_content(topic, gen)
     IN /\ generated_content' = content
        /\ learning_path' =
             [ topic |-> topic,
               modules |-> content.modules,
               youtube_recommendations |-> Get(content, "youtube_recommendations", <<>>),
               quiz_questions |-> Get(content, "quiz_questions", <<>>) ]
  /\ searched_keywords' = {}
  /\ enhanced_recommendations' = <<>>
  /\ qi' = 1 /\ mi' = 0 /\ si' = 0
  /\ pc' = "topic"
  /\ UNCHANGED <<env, others, search_calls, persisted, response, active_requests,
                 metrics, lastSearch>>

\* youtube_service 103-112: one topic query
TopicQuery ==
  /\ pc = "topic"
  /\ LET query == topic_queries(topic)[qi]
     IN \E resp \in CallResponses(api_key, catalog, query) :
          LET r == search_youtube_videos(api_key, TopicQueryResults, resp)
          IN /\ search_calls' = Append(search_calls,
                    SearchCall("topic", 0, <<>>, query, TopicQueryResults))
             /\ IF r.raised
                THEN /\ RaiseServerError
                     /\ UNCHANGED <<enh>>
                ELSE /\ enhanced_recommendations' = enhanced_recommendations
                          \o Recommendations(r.videos, topic_keywords(topic, query))
                     /\ IF qi < TopicQueryLimit
                        THEN /\ qi' = qi + 1
                             /\ UNCHANGED <<pc, mi, si>>
                        ELSE /\ qi' = 0
                             /\ pc' = AfterModule(learning_path, 0)[1]
                             /\ mi' = AfterModule(learning_path, 0)[2]
                             /\ si' = AfterModule(learning_path, 0)[3]
                     /\ UNCHANGED <<searched_keywords, response, active_requests>>
  /\ UNCHANGED <<env, others, generated_content, learning_path, persisted, metrics, lastSearch>>

\* ModuleTitleQuery marking the title as used only when a video was found
ModuleTitleQuery_markonhit ==
  /\ pc = "title"
  /\ LET module == Modules(learning_path)[mi]
     IN IF ~IsDict(module)
        THEN \* module.get raises AttributeError
             /\ RaiseServerError
             /\ UNCHANGED <<enh, search_calls>>
        ELSE LET module_title == Get(module, "title", <<>>)
                 query == module_queries(topic, module_title)[ModuleQueryLimit]
                 next == AfterTitle(learning_path, mi)
             IN IF module_title # <<>> /\ module_title \notin searched_keywords
                THEN \E resp \in CallResponses(api_key, catalog, query) :
                       LET r == search_youtube_videos(api_key, 1, resp)
                       IN /\ search_calls' = Append(search_calls,
                                 SearchCall("title", mi, module_title, query, 1))
                          /\ IF r.raised
                             THEN /\ RaiseServerError
                                  /\ UNCHANGED <<enh>>
                             ELSE /\ enhanced_recommendations' = enhanced_recommendations
                                       \o Recommendations(r.videos,
                                            module_keywords(topic, module_title))
                                  /\ searched_keywords' =
                                       IF r.videos # <<>>
                                       THEN searched_keywords \cup {module_title}
                                       ELSE searched_keywords
                                  /\ pc' = next[1] /\ mi' = next[2] /\ si' = next[3]
                                  /\ UNCHANGED <<qi, response, active_requests>>
                ELSE /\ pc' = next[1] /\ mi' = next[2] /\ si' = next[3]
                     /\ UNCHANGED <<searched_keywords, enhanced_recommendations, qi,
                                    search_calls, response, active_requests>>
  /\ UNCHANGED <<env, others, generated_content, learning_path, persisted, metrics, lastSearch>>

\* youtube_service 116-134: the title of module mi
ModuleTitleQuery ==
  /\ pc = "title"
  /\ LET module == Modules(learning_path)[mi]
     IN IF ~IsDict(module)
        THEN \* module.get raises AttributeError
             /\ RaiseServerError
             /\ UNCHANGED <<enh, search_calls>>
        ELSE LET module_title == Get(module, "title", <<>>)
                 query == module_queries(topic, module_title)[ModuleQueryLimit]
                 next == AfterTitle(learning_path, mi)
             IN IF module_title # <<>> /\ module_title \notin searched_keywords
                THEN \E resp \in CallResponses(api_key, catalog, query) :
                       LET r == search_youtube_videos(api_key, 1, resp)
                       IN /\ search_calls' = Append(search_calls,
                                 SearchCall("title", mi, module_title, query, 1))
                          /\ IF r.raised
                             THEN /\ RaiseServerError
                                  /\ UNCHANGED <<enh>>
                             ELSE /\ enhanced_recommendations' = enhanced_recommendations
                                       \o Recommendations(r.videos,
                                            module_keywords(topic, module_title))
                                  /\ searched_keywords' =
                                       searched_keywords \cup {module_title}
                                  /\ pc' = next[1] /\ mi' = next[2] /\ si' = next[3]
                                  /\ UNCHANGED <<qi, response, active_requests>>
                ELSE /\ pc' = next[1] /\ mi' = next[2] /\ si' = next[3]
                     /\ UNCHANGED <<searched_keywords, enhanced_recommendations, qi,
                                    search_calls, response, active_requests>>
  /\ UNCHANGED <<env, others, generated_content, learning_path, persisted, metrics, lastSearch>>

\* youtube_service 137-154: subtopic si of module mi
SubtopicQuery ==
  /\ pc = "subtopic"
  /\ LET subtopic == Subtopics(Modules(learning_path)[mi])[si]
         query == subtopic_queries(topic, subtopic)[SubtopicQueryLimit]
         next == AfterSubtopic(learning_path, mi, si)
     IN IF subtopic # <<>> /\ subtopic \notin searched_keywords
        THEN \E resp \in CallResponses(api_key, catalog, query) :
               LET r == search_youtube_videos(api_key, 1, resp)
               IN /\ search_calls' = Append(search_calls,
                         SearchCall("subtopic", mi, subtopic, query, 1))
                  /\ IF r.raised
                     THEN /\ RaiseServerError
                          /\ UNCHANGED <<enh>>
                     ELSE /\ enhanced_recommendations' = enhanced_recommendations
                               \o Recommendations(r.videos,
                                    subtopic_keywords(topic, subtopic))
                          /\ searched_keywords' = searched_keywords \cup {subtopic}
                          /\ pc' = next[1] /\ mi' = next[2] /\ si' = next[3]
                          /\ UNCHANGED <<qi, response, active_requests>>
        ELSE /\ pc' = next[1] /\ mi' = next[2] /\ si' = next[3]
             /\ UNCHANGED <<searched_keywords, enhanced_recommendations, qi,
                            search_calls, response, active_requests>>
  /\ UNCHANGED <<env, others, generated_content, learning_path, persisted, metrics, lastSearch>>

\* FillAndReturn with the test "<= 5" instead of "< 5"
FillAndReturn_atmost ==
  /\ pc = "fill"
  /\ IF Len(enhanced_recommendations) <= RecommendationTarget
     THEN LET query == fill_query(topic)
              wanted == RecommendationTarget - Len(enhanced_recommendations)
          IN \E resp \in CallResponses(api_key, catalog, query) :
               LET r == search_youtube_videos(api_key, wanted, resp)
                   all == enhanced_recommendations
                            \o Recommendations(r.videos, fill_keywords(topic))
               IN /\ search_calls' = Append(search_calls,
                         SearchCall("fill", 0, <<>>, query, wanted))
                  /\ IF r.raised
                     THEN /\ RaiseServerError
                          /\ UNCHANGED <<enhanced_recommendations, learning_path>>
                     ELSE /\ enhanced_recommendations' = all
                          /\ learning_path' = ReplaceRecommendations(learning_path, all)
                          /\ pc' = "store"
                          /\ UNCHANGED <<response, active_requests>>
     ELSE /\ learning_path' =
               ReplaceRecommendations(learning_path, enhanced_recommendations)
          /\ pc' = "store"
          /\ UNCHANGED <<enhanced_recommendations, search_calls, response,
                         active_requests>>
  /\ UNCHANGED <<env, others, generated_content, searched_keywords, qi, mi, si, persisted,
                 metrics, lastSearch>>

\* youtube_service 156-186: the fill query if fewer than 5 were collected,
\* then deduplication, truncation, replacement and return
FillAndReturn ==
  /\ pc = "fill"
  /\ IF Len(enhanced_recommendations) < RecommendationTarget
     THEN LET query == fill_query(topic)
              wanted == RecommendationTarget - Len(enhanced_recommendations)
          IN \E resp \in CallResponses(api_key, catalog, query) :
               LET r == search_youtube_videos(api_key, wanted, resp)
                   all == enhanced_recommendations
                            \o Recommendations(r.videos, fill_keywords(topic))
               IN /\ search_calls' = Append(search_calls,
                         SearchCall("fill", 0, <<>>, query, wanted))
                  /\ IF r.raised
                     THEN /\ RaiseServerError
                          /\ UNCHANGED <<enhanced_recommendations, learning_path>>
                     ELSE /\ enhanced_recommendations' = all
                          /\ learning_path' = ReplaceRecommendations(learning_path, all)
                          /\ pc' = "store"
                          /\ UNCHANGED <<response, active_requests>>
     ELSE /\ learning_path' =
               ReplaceRecommendations(learning_path, enhanced_recommendations)
          /\ pc' = "store"
          /\ UNCHANGED <<enhanced_recommendations, search_calls, response,
                         active_requests>>
  /\ UNCHANGED <<env, others, generated_content, searched_keywords, qi, mi, si, persisted,
                 metrics, lastSearch>>

\* routes 60-72: the counters are updated and the path is handed to the store
Insert ==
  /\ pc = "store"
  /\ metrics' =
       [ learning_paths_generated |-> metrics.learning_paths_generated + 1,
         youtube_recommendations_requested |->
           metrics.youtube_recommendations_requested
             + Len(Get(learning_path, "youtube_recommendations", <<>>)),
         quiz_questions_generated |->
           metrics.quiz_questions_generated
             + Len(Get(learning_path, "quiz_questions", <<>>)) ]
  /\ \E outcome \in {"ok", "nodata", "error"} :
       LET new_id == Str("path-" \o ToString(Len(store) + 1))
           row == insert_learning_path(topic, learning_path.modules,
                    Get(learning_path, "youtube_recommendations", <<>>),
                    Get(learning_path, "quiz_questions", <<>>),
                    NoUser, outcome, new_id)
       IN /\ stored_path' = row
          /\ store' = IF outcome = "ok" THEN Append(store, row) ELSE store
          /\ insert_calls' = Append(insert_calls,
               [ topic |-> topic,
                 modules |-> learning_path.modules,
                 youtube_recommendations |->
                   OrEmptyList(Get(learning_path, "youtube_recommendations", <<>>)),
                 quiz_questions |->
                   OrEmptyList(Get(learning_path, "quiz_questions", <<>>)),
                 user_id |-> NoUser,
                 outcome |-> outcome ])
  /\ searched_keywords' = {}
  /\ enhanced_recommendations' = <<>>
  /\ pc' = "respond"
  /\ UNCHANGED <<env, others, generated_content, learning_path, qi, mi, si, search_calls,
                 response, active_requests, lastSearch>>

\* routes 75-91: the response model is built; a validation error is caught
\* by "except Exception"; "finally" decrements the gauge
Respond ==
  /\ pc = "respond"
  /\ response' =
       IF ValidLearningPathResponse(learning_path.modules,
                                    learning_path.youtube_recommendations,
                                    learning_path.quiz_questions)
       THEN [ status |-> 200,
              id |-> stored_path.id,
              topic |-> topic,
              modules |-> learning_path.modules,
              youtube_recommendations |-> learning_path.youtube_recommendations,
              quiz_questions |-> learning_path.quiz_questions ]
       ELSE [ status |-> 500 ]
  /\ active_requests' = active_requests - 1
  /\ pc' = "done"
  /\ UNCHANGED <<env, others, generated_content, learning_path, enh, search_calls,
                 persisted, metrics, lastSearch>>

Next ==
  \/ ReceiveRequest
  \/ Generate
  \/ TopicQuery
  \/ ModuleTitleQuery
  \/ SubtopicQuery
  \/ FillAndReturn
  \/ Insert
  \/ Respond

Spec == Init /\ [][Next]_vars

\* --------------------------------------- the search client on its own
\* youtube_service 189-198 calls search_youtube_videos outside any request;
\* here it is called with a query of each kind, any max_results the
\* enhancer can ask for, and any answer of the provider
SampleQueries == { topic_queries(<<"Rust">>)[1], fill_query(<<"Rust">>) }

StandaloneSearch ==
  /\ \E query \in SampleQueries, max_results \in 0..RecommendationTarget :
       \E resp \in CallResponses(api_key, catalog, query) :
          LET r == search_youtube_videos(api_key, max_results, resp)
          IN lastSearch' = [ query |-> query, max_results |-> max_results,
                             key |-> api_key, resp |-> resp,
                             raised |-> r.raised, videos |-> r.videos, done |-> TRUE ]
  /\ UNCHANGED <<env, others, pc, generated_content, learning_path, enh, search_calls,
                 persisted, response, active_requests, metrics>>

InitSearch ==
  /\ api_key \in BOOLEAN
  /\ catalog \in Catalogs
  /\ topic = <<"Rust">>
  /\ gen = [kind |-> "timeout", text |-> NoText]
  /\ InitRest
  /\ Alone

NextSearch == StandaloneSearch

SpecSearch == InitSearch /\ [][NextSearch]_vars

\* ------------------------------------------- GET /learning-path/{path_id}
MaxStored == 2

\* the mock path of get_learning_path (created_at is not read by the route)
MockPath(path_id) ==
  [ id |-> path_id,
    topic |-> <<"Mock", "Topic">>,
    modules |-> << [ title |-> <<"Mock", "Module">>,
                     subtopics |-> << <<"Mock", "Subtopic">> >> ] >>,
    youtube_recommendations |-> <<>>,
    quiz_questions |-> <<>> ]

\* select("*").eq("id", path_id): the rows with that id
RowsWithId(rows, path_id) ==
  SelectSeq(rows, LAMBDA row : row.id = path_id)

\* get_learning_path with a missing record passed on as an error
get_learning_path_raisemissing(path_id, outcome, rows) ==
  IF outcome = "answer" /\ RowsWithId(rows, path_id) # <<>>
  THEN [raised |-> FALSE, record |-> RowsWithId(rows, path_id)[1]]
  ELSE IF outcome = "answer"
       THEN [raised |-> TRUE, record |-> None]
       ELSE [raised |-> FALSE, record |-> MockPath(path_id)]

\* get_learning_path(path_id); outcome is what the store does with the
\* select: "answer" it answers with the matching rows, "error" creating the
\* client or the call raises
get_learning_path(path_id, outcome, rows) ==
  IF outcome = "answer"
  THEN IF RowsWithId(rows, path_id) # <<>>
       THEN [raised |-> FALSE, record |-> RowsWithId(rows, path_id)[1]]
       ELSE [raised |-> FALSE, record |-> MockPath(path_id)]
  ELSE [raised |-> FALSE, record |-> MockPath(path_id)]

\* routes 104-118: the response model built from the record, or the 500 of
\* "except Exception"
GetResponse(got) ==
  IF got.raised THEN [status |-> 500]
  ELSE LET stored == got.record
           youtube_recommendations == Get(stored, "youtube_recommendations", <<>>)
           quiz_questions == Get(stored, "quiz_questions", <<>>)
       IN IF ValidLearningPathResponse(stored.modules, youtube_recommendations,
                                       quiz_questions)
          THEN [ status |-> 200,
                 id |-> stored.id,
                 topic |-> stored.topic,
                 modules |-> stored.modules,
                 youtube_recommendations |-> youtube_recommendations,
                 quiz_questions |-> quiz_questions ]
          ELSE [status |-> 500]

\* the ids asked for: ids the store hands out, the placeholder id of the
\* stand-in record, and an id that was never stored
PathIds == { Str("path-" \o ToString(n)) : n \in 1..MaxStored } \cup {MockId, Str("path-none")}

\* one GET /learning-path/{path_id}
GetLearningPath ==
  /\ \E path_id \in PathIds, outcome \in {"answer", "error"} :
       LET got == get_learning_path(path_id, outcome, store)
       IN fetched' = [ path_id |-> path_id,
                       outcome |-> outcome,
                       known |-> RowsWithId(store, path_id) # <<>>,
                       raised |-> got.raised,
                       record |-> got.record,
                       response |-> GetResponse(got),
                       done |-> TRUE ]
  /\ UNCHANGED <<env, running, suspended, disconnected, pc, generated_content, learning_path, enh,
                 search_calls, persisted, response, active_requests, metrics,
                 lastSearch>>

\* what earlier requests left in the store: the text model timed out,
\* answered well, or answered with a last quiz question lacking its
\* correct_answer
StoredGenOutcomes ==
  { [kind |-> "timeout", text |-> NoText],
    [kind |-> "text", text |-> GoodText],
    [kind |-> "text",
     text |-> [GoodText EXCEPT !.value.quiz_questions =
                 AsList(ModelList(5, "partial", ModelQuizQuestions,
                                  [question |-> Str("Open?"), options |-> <<>>]))]] }

\* the row the store holds for a request that was answered without search
\* hits: insert_learning_path of the generated content, with the id the
\* store gave it
StoredRow(t, g, n) ==
  LET content == generate_learning_path_content(t, g)
  IN insert_learning_path(t, content.modules, content.youtube_recommendations,
                          content.quiz_questions, NoUser, "ok",
                          Str("path-" \o ToString(n)))

StoredRows ==
  UNION { [1..n -> Topics \X StoredGenOutcomes] : n \in 0..MaxStored }

InitGet ==
  /\ api_key = FALSE
  /\ catalog = "distinct"
  /\ topic = <<"Rust">>
  /\ gen = [kind |-> "timeout", text |-> NoText]
  /\ pc = "idle"
  /\ generated_content = None
  /\ learning_path = None
  /\ searched_keywords = {}
  /\ enhanced_recommendations = <<>>
  /\ qi = 0 /\ mi = 0 /\ si = 0
  /\ search_calls = <<>>
  /\ \E picks \in StoredRows :
       store = [n \in DOMAIN picks |-> StoredRow(picks[n][1], picks[n][2], n)]
  /\ insert_calls = <<>>
  /\ stored_path = None
  /\ response = NoResponse
  /\ active_requests = 0
  /\ metrics = [learning_paths_generated |-> 0,
                youtube_recommendations_requested |-> 0,
                quiz_questions_generated |-> 0]
  /\ lastSearch = NoSearch
  /\ fetched = NoFetch
  /\ disconnected = FALSE
  /\ Alone

NextGet == GetLearningPath

SpecGet == InitGet /\ [][NextGet]_vars

\* ------------------------------------------------- concurrent requests
MaxRequests == 2

\* the locals of the handler that is executing (routes 29-91 and, inside
\* enhance, youtube_service 89-94), with the log of its own search calls
Frame ==
  [ topic |-> topic,
    gen |-> gen,
    pc |-> pc,
    generated_content |-> generated_content,
    learning_path |-> learning_path,
    searched_keywords |-> searched_keywords,
    enhanced_recommendations |-> enhanced_recommendations,
    qi |-> qi, mi |-> mi, si |-> si,
    search_calls |-> search_calls,
    stored_path |-> stored_path,
    response |-> response ]

\* the locals of a request that has not been received yet
NewFrame(t, g) ==
  [ topic |-> t,
    gen |-> g,
    pc |-> "idle",
    generated_content |-> None,
    learning_path |-> None,
    searched_keywords |-> {},
    enhanced_recommendations |-> <<>>,
    qi |-> 0, mi |-> 0, si |-> 0,
    search_calls |-> <<>>,
    stored_path |-> None,
    response |-> NoResponse ]

\* LocalKeywords with searched_keywords a module-level set shared by all calls
LocalKeywords_global(frame) == searched_keywords

\* youtube_service 93: searched_keywords is a local of the call of enhance
LocalKeywords(frame) == frame.searched_keywords

\* The server turns from the executing handler to the handler of request r.
\* The coroutine of routes 29 can be suspended at the awaited generation
\* call (routes 47); here a handler may be suspended between any two of its
\* steps, which includes that point and covers handlers run on threads.
\* The locals go with the handler; the store, the metrics and the
\* environment are the same for all.
Switch(r) ==
  /\ r \in DOMAIN suspended
  /\ suspended' = [ q \in (DOMAIN suspended \ {r}) \cup {running} |->
                      IF q = running THEN Frame ELSE suspended[q] ]
  /\ running' = r
  /\ topic' = suspended[r].topic
  /\ gen' = suspended[r].gen
  /\ pc' = suspended[r].pc
  /\ generated_content' = suspended[r].generated_content
  /\ learning_path' = suspended[r].learning_path
  /\ searched_keywords' = LocalKeywords(suspended[r])
  /\ enhanced_recommendations' = suspended[r].enhanced_recommendations
  /\ qi' = suspended[r].qi /\ mi' = suspended[r].mi /\ si' = suspended[r].si
  /\ search_calls' = suspended[r].search_calls
  /\ stored_path' = suspended[r].stored_path
  /\ response' = suspended[r].response
  /\ UNCHANGED <<api_key, catalog, store, insert_calls, active_requests, metrics,
                 lastSearch, fetched, disconnected>>

\* in the concurrent scenarios the provider answers every call with as many
\* videos as were asked for (at most MaxItems), or with none when the key is
\* not configured, and the store accepts every insert
SteadyProvider ==
  search_calls' # search_calls =>
    Len(enhanced_recommendations') =
      Len(enhanced_recommendations)
        + (IF api_key
           THEN Min(search_calls'[Len(search_calls')].max_results, MaxItems)
           ELSE 0)

SteadyStore ==
  insert_calls' # insert_calls => insert_calls'[Len(insert_calls')].outcome = "ok"

\* a step of the executing handler
HandlerStep == Next /\ SteadyProvider /\ SteadyStore

\* the requests of the concurrent scenarios: topic and what the text model
\* does
ConcurrentInputs ==
  << << <<"Rust">>, [kind |-> "text", text |-> GoodText] >>,
     << <<"Python", "Programming">>,
        [kind |-> "text", text |-> TextWithModules(GapModules)] >> >>

\* any requests, numbered so that equal ones are neighbours
InitConcurrent ==
  /\ \/ api_key = FALSE /\ catalog = "distinct"
     \/ api_key = TRUE /\ catalog \in {"distinct", "byrank"}
  /\ \E choice \in [1..MaxRequests -> DOMAIN ConcurrentInputs] :
       /\ \A r \in 1..(MaxRequests - 1) : choice[r] <= choice[r + 1]
       /\ topic = ConcurrentInputs[choice[1]][1]
       /\ gen = ConcurrentInputs[choice[1]][2]
       /\ suspended = [r \in 2..MaxRequests |->
                         NewFrame(ConcurrentInputs[choice[r]][1],
                                  ConcurrentInputs[choice[r]][2])]
  /\ running = 1
  /\ InitRest

NextConcurrent ==
  \/ HandlerStep
  \/ \E r \in 1..MaxRequests : Switch(r)

SpecConcurrent == InitConcurrent /\ [][NextConcurrent]_vars

\* ------------------------------------------- a request runs to its end
\* The client goes away while its request is being handled.  The handler
\* takes only the parsed body (routes 28-29) and never looks at the
\* connection, so nothing it reads changes.
ClientDisconnect ==
  /\ pc \notin {"idle", "done"}
  /\ ~disconnected
  /\ disconnected' = TRUE
  /\ UNCHANGED <<env, fetched, running, suspended, pc, generated_content,
                 learning_path, enh, search_calls, persisted, response,
                 active_requests, metrics, lastSearch>>

\* what the text model does in these scenarios: it fails, answers well,
\* answers with repeated or empty titles, or answers with a module that is
\* not an object
LiveGenOutcomes ==
  SearchScenarioOutcomes
  \cup { [kind |-> "unreachable", text |-> NoText],
         [kind |-> "text",
          text |-> TextWithModules(ModelList(2, "scalar", ModelModules, NonDict))] }

\* one request: either the search key is not configured, or it is, the
\* provider may answer anything and the text model answers with text
InitLive ==
  /\ topic = <<"Rust">>
  /\ catalog = "distinct"
  /\ \/ api_key = FALSE /\ gen \in LiveGenOutcomes
     \/ api_key = TRUE /\ gen \in { g \in LiveGenOutcomes :
                                       g.kind = "text" /\ g.text.form = "json"
                                       /\ Len(g.text.value.modules.items) = 2 }
  /\ InitRest
  /\ Alone

NextLive == Next \/ ClientDisconnect

\* Every blocking call of the handler returns or gives up: the generation
\* call after at most 90 time units (gemini_service 122-128), a search call
\* after at most 10 (youtube_service 51), the insert when the store client
\* returns or raises; so the handler always takes its next step.
SpecLive == InitLive /\ [][NextLive]_vars /\ WF_vars(Next)

\* --------------------------------------- generate requests and later GETs
\* a request that has not been received is taken up once the handler of the
\* one before it has ended (requests one after the other)
NextRequest ==
  /\ pc = "done"
  /\ \E r \in DOMAIN suspended :
       /\ suspended[r].pc = "idle"
       /\ Switch(r)

\* POST /generate requests handled one after the other, the store doing
\* anything with each insert, and GET /learning-path/{path_id} at any time
NextRoundTrip ==
  \/ Next /\ SteadyProvider
  \/ NextRequest
  \/ GetLearningPath

SpecRoundTrip == InitConcurrent /\ [][NextRoundTrip]_vars

\* ------------------------------------- concurrent requests that may fail
\* a complete answer of the text model whose last quiz question lacks its
\* correct_answer
TextWithOpenQuestion ==
  [GoodText EXCEPT !.value.quiz_questions =
     AsList(ModelList(5, "partial", ModelQuizQuestions,
                      [question |-> Str("Open?"), options |-> <<>>]))]

\* requests that end well, that fail inside enhance (a module that is not
\* an object) and that fail when the response is built
GaugeInputs ==
  << << <<"Rust">>, [kind |-> "text", text |-> GoodText] >>,
     << <<"Rust">>,
        [kind |-> "text",
         text |-> TextWithModules(ModelList(2, "scalar", ModelModules, NonDict))] >>,
     << <<"Rust">>, [kind |-> "text", text |-> TextWithOpenQuestion] >> >>

\* any requests, numbered so that equal ones are neighbours; the search key
\* is not configured
InitGauge ==
  /\ api_key = FALSE
  /\ catalog = "distinct"
  /\ \E choice \in [1..MaxRequests -> DOMAIN GaugeInputs] :
       /\ \A r \in 1..(MaxRequests - 1) : choice[r] <= choice[r + 1]
       /\ topic = GaugeInputs[choice[1]][1]
       /\ gen = GaugeInputs[choice[1]][2]
       /\ suspended = [r \in 2..MaxRequests |->
                         NewFrame(GaugeInputs[choice[r]][1],
                                  GaugeInputs[choice[r]][2])]
  /\ running = 1
  /\ InitRest

SpecGauge == InitGauge /\ [][NextConcurrent]_vars

\* ---------------------------------------------------------------- claims
HandedToStore == { insert_calls[i] : i \in DOMAIN insert_calls }

DistinctUrls(recs) ==
  \A a, b \in DOMAIN recs : a # b => recs[a].url # recs[b].url

\* C1: the youtube_recommendations that enhance returns and that are handed
\* to the store have at most 5 entries, no two with the same url
C1_AtMostFiveDistinctUrls ==
  /\ pc \in {"store", "respond", "done"} /\ learning_path # None =>
       /\ Len(learning_path.youtube_recommendations) <= 5
       /\ DistinctUrls(learning_path.youtube_recommendations)
  /\ \A d \in HandedToStore :
       /\ Len(d.youtube_recommendations) <= 5
       /\ DistinctUrls(d.youtube_recommendations)

CallsOfKind(kind) == { i \in DOMAIN search_calls : search_calls[i].kind = kind }
CallsFor(kind, m) ==
  { i \in DOMAIN search_calls : search_calls[i].kind = kind /\ search_calls[i].module = m }

\* C2: one call of enhance issues at most 12 search calls: at most 2 topic
\* queries and never the third topic template, at most 1 title query and at
\* most 2 subtopic queries for each of the first 3 modules and none for a
\* later module, and at most 1 fill query
C2_AtMostTwelveSearchCalls ==
  /\ Len(search_calls) <= 12
  /\ Cardinality(CallsOfKind("topic")) <= 2
  /\ \A i \in CallsOfKind("topic") : search_calls[i].query # topic_queries(topic)[3]
  /\ \A m \in 1..MaxModelModules + 1 :
       /\ Cardinality(CallsFor("title", m)) <= (IF m <= 3 THEN 1 ELSE 0)
       /\ Cardinality(CallsFor("subtopic", m)) <= (IF m <= 3 THEN 2 ELSE 0)
  /\ Cardinality(CallsOfKind("fill")) <= 1

C2_TwelveCallsIssued ==
  /\ pc = "store"
  /\ Len(search_calls) = 12
  /\ Cardinality(CallsOfKind("topic")) = 2
  /\ Cardinality(CallsOfKind("title")) = 3
  /\ Cardinality(CallsOfKind("subtopic")) = 6
  /\ Cardinality(CallsOfKind("fill")) = 1

\* C3: when every search call of enhance returned an empty sequence (nothing
\* was collected), enhance returns the path with the generator's
\* youtube_recommendations, and that list is what is handed to the store
C3_EmptySearchKeepsGenerated ==
  [][ (pc = "store" /\ enhanced_recommendations = <<>>) =>
        /\ learning_path.youtube_recommendations
             = generated_content.youtube_recommendations
        /\ Len(insert_calls') = Len(insert_calls) + 1
        /\ insert_calls'[Len(insert_calls')].youtube_recommendations
             = generated_content.youtube_recommendations ]_vars

C3_AllSearchesEmpty ==
  /\ topic = <<"Rust">>
  /\ api_key
  /\ pc = "respond"
  /\ Len(search_calls) >= 9
  /\ Len(insert_calls) = 1
  /\ insert_calls[1].youtube_recommendations = generated_content.youtube_recommendations
  /\ learning_path.youtube_recommendations = generated_content.youtube_recommendations

\* the part of the answer that search_youtube_videos reads is malformed
MalformedBody(max_results, resp) ==
  \/ resp.body \in {"notjson", "notdict"}
  \/ \E i \in 1..Min(max_results, Len(resp.items)) : ~WellFormedItem(resp.items[i])

SearchFailure(ls) ==
  \/ ~ls.key
  \/ ls.resp.transport \in {"error", "timeout"}
  \/ ls.resp.status # 200
  \/ MalformedBody(ls.max_results, ls.resp)

\* C4: search_youtube_videos never lets an exception reach its caller, and
\* returns the empty sequence when the API key is missing, the transport
\* fails or times out, the status is not 200, or the body is malformed
C4_SearchNeverRaises ==
  lastSearch.done =>
    /\ ~lastSearch.raised
    /\ SearchFailure(lastSearch) => lastSearch.videos = <<>>

C4_MalformedBodyAnsweredEmpty ==
  /\ lastSearch.done
  /\ lastSearch.key
  /\ lastSearch.resp.transport = "ok"
  /\ lastSearch.resp.status = 200
  /\ lastSearch.resp.body = "dict"
  /\ Len(lastSearch.resp.items) = 2
  /\ WellFormedItem(lastSearch.resp.items[1])
  /\ ~WellFormedItem(lastSearch.resp.items[2])
  /\ lastSearch.max_results >= 2
  /\ lastSearch.videos = <<>>
  /\ ~lastSearch.raised

FallbackModules(t) ==
  { TimeoutFallback(t).modules, ErrorFallback(t).modules,
    DefaultStructure(t).modules, RepairModules(t) }

\* C5: when the text model is unreachable, times out or answers with text
\* in which no JSON is found, then whatever the search calls and the store
\* do the request never ends in a server error: it ends in a success
\* response carrying fallback modules and the 10 fallback quiz questions,
\* with id "mock-id" when the insert failed
C5_UpstreamFailuresAbsorbed ==
  GeneratorFails(gen) =>
    /\ response.status # 500
    /\ pc = "done" =>
         /\ response.status = 200
         /\ response.modules \in FallbackModules(topic)
         /\ Len(response.quiz_questions) = 10
         /\ insert_calls[1].outcome # "ok" => response.id = MockId

C5_AllCollaboratorsFailed ==
  /\ pc = "done"
  /\ gen.kind = "timeout"
  /\ api_key
  /\ Len(search_calls) = 12
  /\ insert_calls[1].outcome = "error"
  /\ response.status = 200
  /\ response.id = MockId
  /\ response.youtube_recommendations = TimeoutFallback(topic).youtube_recommendations

\* C6: a request that ends in the 500 server error has handed nothing to the
\* store; the insert call is made at most once per request
C6_NoInsertBeforeServerError ==
  /\ Len(insert_calls) <= 1
  /\ response.status = 500 => insert_calls = <<>>

\* the request ended in a server error before anything reached the store:
\* an exception left enhance
EnhanceRaised == response.status = 500 /\ insert_calls = <<>>

\* C7: whatever the text model answers, the content the generator returns is
\* structurally valid (modules are {title, subtopics} records,
\* recommendations {title, url, keywords} records) and enhance does not
\* raise on it
C7_GeneratedContentValid ==
  generated_content # None =>
    /\ \A i \in DOMAIN generated_content.modules :
          ValidModule(generated_content.modules[i])
    /\ \A i \in DOMAIN generated_content.youtube_recommendations :
          ValidRecommendation(generated_content.youtube_recommendations[i])
    /\ ~EnhanceRaised

\* the JSON value the generator's repair step starts from, if there is one
ParsedObject ==
  /\ gen.kind = "text"
  /\ ~ParseResponse(topic, gen.text).raised
  /\ ParseResponse(topic, gen.text).content.isObject

Parsed == ParseResponse(topic, gen.text).content

\* fewer than least elements, or no such key
FewerThan(v, least) == v.k = "absent" \/ (v.k = "list" /\ Len(v.items) < least)

\* C8: a parsed output with fewer than 2 modules gets the 3-module fallback
\* "Foundations of T", "Intermediate T", "Advanced T", one with fewer than 3
\* recommendations the 5-item fallback, one with fewer than 5 quiz questions
\* the 10-item fallback; every returned value has at least 2 modules, 3
\* recommendations and 5 quiz questions
C8_SelfRepairByCardinality ==
  generated_content # None =>
    /\ Len(generated_content.modules) >= 2
    /\ Len(generated_content.youtube_recommendations) >= 3
    /\ Len(generated_content.quiz_questions) >= 5
    /\ ParsedObject =>
         /\ FewerThan(Parsed.modules, 2) =>
              generated_content.modules = RepairModules(topic)
         /\ FewerThan(Parsed.youtube_recommendations, 3) =>
              generated_content.youtube_recommendations = RepairRecommendations(topic)
         /\ FewerThan(Parsed.quiz_questions, 5) =>
              generated_content.quiz_questions = RepairQuizQuestions(topic)

\* C9: on a timeout and on any other error the generator returns the three
\* structures that self-repair substitutes
C9_FailureReturnsRepairBlocks ==
  (generated_content # None /\ gen.kind \in {"timeout", "unreachable"}) =>
    /\ generated_content.modules = RepairModules(topic)
    /\ generated_content.youtube_recommendations = RepairRecommendations(topic)
    /\ generated_content.quiz_questions = RepairQuizQuestions(topic)

\* 10 questions, each with 4 options and a correct_answer among them
TenGoodQuestions(quiz) ==
  /\ Len(quiz) = 10
  /\ \A i \in DOMAIN quiz :
       /\ ValidQuizQuestion(quiz[i])
       /\ Len(quiz[i].options) = 4
       /\ \E o \in DOMAIN quiz[i].options : quiz[i].options[o] = quiz[i].correct_answer

\* the model's text does not parse as JSON
MalformedText == gen.kind = "text" /\ ~JsonLoads(gen.text).ok

\* a brace-delimited span of the text parses as an object with 5 or more
\* quiz questions
SpanCarriesQuiz ==
  /\ gen.text.form = "wrapped"
  /\ gen.text.value.quiz_questions.k = "list"
  /\ Len(gen.text.value.quiz_questions.items) >= 5

\* C10 as stated: when the model's text does not parse as JSON, with or
\* without a brace-delimited span, the final quiz_questions are 10 questions
\* with 4 options each and a correct_answer among them
C10_MalformedTextTenQuestions ==
  (learning_path # None /\ MalformedText) =>
    TenGoodQuestions(learning_path.quiz_questions)

\* C10 as amended: the same, except when a brace-delimited span of the text
\* parses as a JSON object with 5 or more quiz questions
C10_MalformedTextTenQuestionsUnlessSpan ==
  (learning_path # None /\ MalformedText /\ ~SpanCarriesQuiz) =>
    TenGoodQuestions(learning_path.quiz_questions)

C10_ProseAnsweredWithTen ==
  /\ pc = "done"
  /\ topic = <<"Python", "Programming">>
  /\ gen.kind = "text"
  /\ gen.text.form = "prose"
  /\ response.status = 200
  /\ TenGoodQuestions(response.quiz_questions)

KeptIndices(all) ==
  { i \in DOMAIN all : \A j \in 1..(i - 1) : all[j].url # all[i].url }

\* the k-th smallest element of a set of positions
NthOf(S, k) == CHOOSE i \in S : Cardinality({ j \in S : j <= i }) = k

\* the first entry of each url, in list order, at most 5 of them
FirstOccurrences(all) ==
  [k \in 1..Min(5, Cardinality(KeptIndices(all))) |-> all[NthOf(KeptIndices(all), k)]]

\* where a call stands in the order topic queries, then per module its title
\* query and its subtopic queries, then the fill query
CallRank(c) ==
  CASE c.kind = "topic" -> 0
    [] c.kind = "title" -> 2 * c.module
    [] c.kind = "subtopic" -> 2 * c.module + 1
    [] OTHER -> 2 * ModuleLimit + 2

\* the query whose answer a recommendation was built from (the provider's
\* titles name the query)
QueryOf(rec) == SubSeq(rec.title, 4, Len(rec.title))

\* C13: when enhance returns, the calls were issued in the order topic,
\* (title, subtopics) per module, fill; the accumulated list follows the
\* order of the calls; and the new youtube_recommendations are the first
\* entry of each url of the accumulated list, in list order, cut to 5
C13_DedupKeepsFirstInOrder ==
  pc = "store" =>
    /\ \A i, j \in DOMAIN search_calls :
         i < j => CallRank(search_calls[i]) <= CallRank(search_calls[j])
    /\ \A a, b \in DOMAIN enhanced_recommendations :
         a < b => \E i, j \in DOMAIN search_calls :
                    /\ i <= j
                    /\ search_calls[i].query = QueryOf(enhanced_recommendations[a])
                    /\ search_calls[j].query = QueryOf(enhanced_recommendations[b])
    /\ enhanced_recommendations # <<>> =>
         learning_path.youtube_recommendations = FirstOccurrences(enhanced_recommendations)

\* two search calls returned the same url under different titles and more
\* than 5 entries were accumulated: the first of the two is in the result,
\* the second is not
C13_SameUrlDifferentTitles ==
  /\ pc = "store"
  /\ Len(enhanced_recommendations) > 5
  /\ \E a, b \in DOMAIN enhanced_recommendations :
       /\ a < b
       /\ enhanced_recommendations[a].url = enhanced_recommendations[b].url
       /\ enhanced_recommendations[a].title # enhanced_recommendations[b].title
       /\ enhanced_recommendations[a].keywords # enhanced_recommendations[b].keywords
       /\ \E k \in DOMAIN learning_path.youtube_recommendations :
            learning_path.youtube_recommendations[k] = enhanced_recommendations[a]
       /\ \A k \in DOMAIN learning_path.youtube_recommendations :
            learning_path.youtube_recommendations[k].title # enhanced_recommendations[b].title

\* the recommendation lists of a state: the accumulated list and the path's
RecommendationListsSeen ==
  {enhanced_recommendations}
  \cup (IF learning_path = None THEN {} ELSE {learning_path.youtube_recommendations})

\* C14: deduplicating by url and keeping the first 5, applied to its own
\* result, gives that result again
C14_DedupIdempotent ==
  \A l \in RecommendationListsSeen :
    final_recommendations(final_recommendations(l)) = final_recommendations(l)

\* a list the step shortens: more than 5 entries, several with one url
C14_DedupShortensList ==
  /\ pc = "store"
  /\ Len(enhanced_recommendations) > 5
  /\ ~DistinctUrls(enhanced_recommendations)
  /\ final_recommendations(enhanced_recommendations) # enhanced_recommendations
  /\ learning_path.youtube_recommendations = final_recommendations(enhanced_recommendations)

\* C16: the path that enhance works on keeps the topic, the modules and the
\* quiz questions it was given; only youtube_recommendations may differ
\* from the generated content (the path is one record, handed in, changed
\* in place and handed back)
C16_EnhanceChangesOnlyRecommendations ==
  learning_path # None =>
    /\ DOMAIN learning_path = {"topic", "modules", "youtube_recommendations", "quiz_questions"}
    /\ learning_path.topic = topic
    /\ learning_path.modules = generated_content.modules
    /\ learning_path.quiz_questions = Get(generated_content, "quiz_questions", <<>>)

\* enhance returned with the recommendations replaced
C16_RecommendationsReplaced ==
  /\ pc = "store"
  /\ learning_path.youtube_recommendations # generated_content.youtube_recommendations
  /\ learning_path.youtube_recommendations = final_recommendations(enhanced_recommendations)
  /\ Len(learning_path.modules) = 3
  /\ Len(learning_path.quiz_questions) = 10

\* the last search call issued
LastCall(calls) == calls[Len(calls)]

\* C20: when the topic, module and subtopic queries are done, the fill query
\* "{topic} advanced tutorial" is issued if and only if fewer than 5
\* recommendations were collected, asking for 5 minus that number (1 to 5)
\* results; it is issued nowhere else, so at most once
C20_FillQueryWhenBelowFive ==
  [][ /\ pc = "fill" =>
           /\ pc' # "fill"
           /\ IF Len(enhanced_recommendations) < 5
              THEN /\ search_calls' = Append(search_calls,
                        [ kind |-> "fill", module |-> 0, keyword |-> <<>>,
                          query |-> topic \o <<"advanced", "tutorial">>,
                          max_results |-> 5 - Len(enhanced_recommendations) ])
                   /\ LastCall(search_calls').max_results \in 1..5
              ELSE search_calls' = search_calls
      /\ (pc # "fill" /\ search_calls' # search_calls) =>
           LastCall(search_calls').kind # "fill"
    ]_vars

\* 3 recommendations were collected and the fill query asked for 2 more
C20_FillAsksForRemainder ==
  /\ pc = "store"
  /\ \E i \in CallsOfKind("fill") : search_calls[i].max_results = 2
  /\ Cardinality(CallsOfKind("fill")) = 1
  /\ Len(enhanced_recommendations) >= 3

\* module.get('title', '')
TitleOf(module) == IF "title" \in DOMAIN module THEN module.title ELSE <<>>

\* the calls made for a search key (a module title or a subtopic)
KeyCalls == CallsOfKind("title") \cup CallsOfKind("subtopic")

\* the step of enhance that looks at the title of module mi
C17_TitleStep ==
  (pc = "title" /\ IsDict(learning_path.modules[mi])) =>
    LET title == TitleOf(learning_path.modules[mi])
    IN /\ mi \in 1..3
       /\ IF title # <<>> /\ title \notin searched_keywords
          THEN /\ search_calls' = Append(search_calls,
                    [ kind |-> "title", module |-> mi, keyword |-> title,
                      query |-> title \o <<"explained">>, max_results |-> 1 ])
               /\ searched_keywords' = searched_keywords \cup {title}
          ELSE /\ search_calls' = search_calls
               /\ searched_keywords' = searched_keywords

\* title queries are issued by that step only
C17_TitleCallsOnlyThere ==
  (pc # "title" /\ search_calls' # search_calls) =>
    LastCall(search_calls').kind # "title"

\* no search key is used for two calls; when enhance returns, the title of
\* each of the first 3 modules, unless empty, is in the used-key set and
\* was the key of exactly one call
C17_KeysUsedOnce ==
  /\ \A i, j \in KeyCalls : i # j => search_calls[i].keyword # search_calls[j].keyword
  /\ pc = "store" =>
       \A m \in 1..Min(3, Len(learning_path.modules)) :
         LET title == TitleOf(learning_path.modules[m])
         IN title # <<>> =>
              /\ title \in searched_keywords
              /\ Cardinality({ i \in KeyCalls : search_calls[i].keyword = title }) = 1
              /\ Cardinality(CallsFor("title", m)) <= 1

\* C17: for each of the first 3 modules, a title that is non-empty and not
\* yet in the used-key set gets exactly one query "{title} explained" asking
\* for 1 result and is added to the set whatever the search returned; a
\* title already in the set is not queried; no string is the key of two
\* calls
C17_TitleQueriedOnce ==
  [][C17_TitleStep /\ C17_TitleCallsOnlyThere /\ C17_KeysUsedOnce']_vars

\* the title query of the first module found no video while other queries
\* did; the title is marked used, and the later modules whose titles repeat
\* it or an earlier subtopic got no title query
C17_TitleMarkedWithoutVideo ==
  /\ pc = "store"
  /\ api_key
  /\ learning_path.modules = OverlapModules
  /\ Str("Basics") \in searched_keywords
  /\ \A i \in CallsOfKind("title") :
       search_calls[i].module = 1 /\ search_calls[i].keyword = Str("Basics")
  /\ Cardinality(CallsOfKind("title")) = 1
  /\ enhanced_recommendations # <<>>
  /\ \A k \in DOMAIN enhanced_recommendations :
       QueryOf(enhanced_recommendations[k]) # <<"Basics", "explained">>

\* module.get('subtopics', [])
SubtopicsOf(module) == IF "subtopics" \in DOMAIN module THEN module.subtopics ELSE <<>>

\* the step of enhance that looks at subtopic si of module mi
C18_SubtopicStep ==
  pc = "subtopic" =>
    LET subtopic == SubtopicsOf(learning_path.modules[mi])[si]
        before == Len(enhanced_recommendations)
    IN /\ mi \in 1..3
       /\ si \in 1..2
       /\ IF subtopic # <<>> /\ subtopic \notin searched_keywords
          THEN /\ search_calls' = Append(search_calls,
                    [ kind |-> "subtopic", module |-> mi, keyword |-> subtopic,
                      query |-> subtopic \o topic \o <<"tutorial">>,
                      max_results |-> 1 ])
               /\ searched_keywords' = searched_keywords \cup {subtopic}
               /\ SubSeq(enhanced_recommendations', 1, before) = enhanced_recommendations
               /\ \A k \in (before + 1)..Len(enhanced_recommendations') :
                    enhanced_recommendations'[k].keywords
                      = <<Lower(topic), Lower(subtopic), <<"concept">>>>
          ELSE /\ search_calls' = search_calls
               /\ searched_keywords' = searched_keywords
               /\ enhanced_recommendations' = enhanced_recommendations

\* subtopic queries are issued by that step only
C18_SubtopicCallsOnlyThere ==
  (pc # "subtopic" /\ search_calls' # search_calls) =>
    LastCall(search_calls').kind # "subtopic"

\* the search keys used before the subtopics of module m are looked at
UsedBefore(m) ==
  { search_calls[i].keyword :
      i \in { j \in KeyCalls : CallRank(search_calls[j]) < 2 * m + 1 } }

\* the non-empty subtopics among the first n of module m that were not used
\* as a search key before
FreshSubtopics(m, n) ==
  LET subtopics == SubtopicsOf(learning_path.modules[m])
  IN { subtopics[k] : k \in 1..Min(n, Len(subtopics)) } \ (UsedBefore(m) \cup {<<>>})

\* when enhance returns, every module among the first 3 with at least 2
\* subtopics not yet used as a search key got 2 subtopic queries
C18_TwoUnusedGetTwoQueries ==
  pc = "store" =>
    \A m \in 1..Min(3, Len(learning_path.modules)) :
      Cardinality(FreshSubtopics(m, Len(SubtopicsOf(learning_path.modules[m])))) >= 2
        => Cardinality(CallsFor("subtopic", m)) = 2

\* when enhance returns, every module among the first 3 got one subtopic
\* query for each distinct non-empty unused subtopic among its first 2
C18_QueriesForFirstTwo ==
  pc = "store" =>
    \A m \in 1..Min(3, Len(learning_path.modules)) :
      Cardinality(CallsFor("subtopic", m)) = Cardinality(FreshSubtopics(m, 2))

C19_EmptyKeyStep ==
  /\ (pc = "title" /\ IsDict(learning_path.modules[mi])
        /\ TitleOf(learning_path.modules[mi]) = <<>>) =>
       /\ search_calls' = search_calls
       /\ searched_keywords' = searched_keywords
       /\ enhanced_recommendations' = enhanced_recommendations
       /\ SubtopicsOf(learning_path.modules[mi]) # <<>> =>
            (pc' = "subtopic" /\ mi' = mi /\ si' = 1)
  /\ (pc = "subtopic" /\ SubtopicsOf(learning_path.modules[mi])[si] = <<>>) =>
       /\ search_calls' = search_calls
       /\ searched_keywords' = searched_keywords
       /\ enhanced_recommendations' = enhanced_recommendations

\* the empty string is never a search key; when enhance returns, a module
\* without title got no title query and as many subtopic queries as its
\* first 2 subtopics hold distinct non-empty unused strings
C19_EmptyNeverKey ==
  /\ <<>> \notin searched_keywords
  /\ \A i \in KeyCalls : search_calls[i].keyword # <<>>
  /\ pc = "store" =>
       \A m \in 1..Min(3, Len(learning_path.modules)) :
         TitleOf(learning_path.modules[m]) = <<>> =>
           /\ CallsFor("title", m) = {}
           /\ Cardinality(CallsFor("subtopic", m)) = Cardinality(FreshSubtopics(m, 2))

\* C19: an empty (or absent) module title or subtopic is skipped: no search
\* call is issued for it and the used-key set does not change; the subtopics
\* of a module with an empty title are searched all the same
C19_EmptyKeySkipped ==
  [][C19_EmptyKeyStep /\ C19_EmptyNeverKey']_vars

\* the first module has an empty title and an empty first subtopic: it got
\* no title query, its second subtopic was searched and a video found
C19_UntitledModuleSearched ==
  /\ pc = "store"
  /\ api_key
  /\ learning_path.modules = GapModules
  /\ CallsFor("title", 1) = {}
  /\ \A i \in CallsFor("subtopic", 1) : search_calls[i].keyword = Str("Scope")
  /\ Cardinality(CallsFor("subtopic", 1)) = 1
  /\ searched_keywords = {Str("Scope"), Str("Basics"), Str("Syntax")}
  /\ \E k \in DOMAIN enhanced_recommendations :
       QueryOf(enhanced_recommendations[k]) = <<"Scope", "Rust", "tutorial">>

\* C15: a GET for an id without a stored record and a GET that meets a store
\* error are answered alike: get_learning_path does not raise and returns
\* the mock path (the requested id, topic "Mock Topic", one mock module, no
\* recommendations, no quiz questions), and the route answers 200 with it
C15_MissingAndErrorGiveSameMock ==
  (fetched.done /\ (fetched.outcome = "error" \/ ~fetched.known)) =>
    /\ ~fetched.raised
    /\ fetched.record =
         [ id |-> fetched.path_id,
           topic |-> <<"Mock", "Topic">>,
           modules |-> << [ title |-> <<"Mock", "Module">>,
                            subtopics |-> << <<"Mock", "Subtopic">> >> ] >>,
           youtube_recommendations |-> <<>>,
           quiz_questions |-> <<>> ]
    /\ fetched.response =
         [ status |-> 200,
           id |-> fetched.path_id,
           topic |-> <<"Mock", "Topic">>,
           modules |-> << [ title |-> <<"Mock", "Module">>,
                            subtopics |-> << <<"Mock", "Subtopic">> >> ] >>,
           youtube_recommendations |-> <<>>,
           quiz_questions |-> <<>> ]

\* the store holds rows, answers the select, and has no row with the id
\* asked for: the GET is answered 200 with the mock path
C15_UnknownIdAnsweredWithMock ==
  /\ fetched.done
  /\ fetched.outcome = "answer"
  /\ store # <<>>
  /\ ~fetched.known
  /\ fetched.path_id = Str("path-none")
  /\ fetched.response.status = 200
  /\ fetched.response.topic = <<"Mock", "Topic">>

\* the requests, and the locals of each
Requests == DOMAIN suspended \cup {running}
FrameOf(r) == IF r = running THEN Frame ELSE suspended[r]

\* the search keys and the queries of a request's own search calls
OwnKeys(f) ==
  { f.search_calls[i].keyword :
      i \in { j \in DOMAIN f.search_calls :
                f.search_calls[j].kind \in {"title", "subtopic"} } }
OwnQueries(f) == { f.search_calls[i].query : i \in DOMAIN f.search_calls }

\* every entry was built for the request's topic from an answer to one of
\* the request's own search calls
FromOwnCalls(f, recs) ==
  \A k \in DOMAIN recs :
    /\ recs[k].keywords[1] = Lower(f.topic)
    /\ QueryOf(recs[k]) \in OwnQueries(f)

\* the used-key set of every request holds the keys of its own calls and
\* nothing else, its accumulated list holds answers to its own calls, and
\* the recommendations it returns are its own generated ones or answers to
\* its own calls
C12_LocalsOwn ==
  \A r \in Requests :
    LET f == FrameOf(r)
    IN /\ f.searched_keywords \subseteq OwnKeys(f)
       /\ f.pc \in {"topic", "title", "subtopic", "fill", "store"} =>
            f.searched_keywords = OwnKeys(f)
       /\ FromOwnCalls(f, f.enhanced_recommendations)
       /\ f.response.status = 200 =>
            /\ f.response.topic = f.topic
            /\ \/ f.response.youtube_recommendations
                    = f.generated_content.youtube_recommendations
               \/ FromOwnCalls(f, f.response.youtube_recommendations)

\* the counters never decrease
C12_CountersOnlyGrow ==
  \A c \in DOMAIN metrics : metrics'[c] >= metrics[c]

\* the gauge is the number of requests being handled
C12_GaugeCountsRequests ==
  active_requests = Cardinality({ r \in Requests : FrameOf(r).pc \notin {"idle", "done"} })

SetLike(keywords) ==
  \A i, j \in DOMAIN keywords : keywords[i] = keywords[j] => i = j

\* C21: every recommendation that enhance has accumulated, and so every one
\* it writes into the path, has a keywords sequence without a repeated
\* keyword
C21_KeywordsSetLike ==
  \A i \in DOMAIN enhanced_recommendations :
    SetLike(enhanced_recommendations[i].keywords)

\* ------------------------------------------------------------------ C22
\* C22: when enhance has returned and its final deduplicated list has fewer
\* than 5 entries, the fill query was issued during the call
C22_ShortListOnlyAfterFill ==
  pc = "store" /\ Len(final_recommendations(enhanced_recommendations)) < 5 =>
    \E i \in CallsOfKind("fill") : search_calls[i].query = fill_query(topic)

\* ------------------------------------------------------------------ C23
\* C23: every request eventually ends, with a success response or with a
\* 500 error, whatever the generation call, the search calls and the insert
\* answer, and whether or not the client has gone away
C23_RequestEventuallyEnds ==
  <>(pc = "done" /\ response.status \in {200, 500})

\* the generation call timed out, all 12 search calls came back empty, the
\* client went away, and the request ended with a success response
C23_EndedAfterTimeoutsAndDisconnect ==
  /\ pc = "done"
  /\ disconnected
  /\ gen.kind = "timeout"
  /\ Len(search_calls) = 12
  /\ response.status = 200

\* ------------------------------------------------------------------ C24
\* the generate requests that have returned a success response
Succeeded == { r \in Requests : FrameOf(r).pc = "done" /\ FrameOf(r).response.status = 200 }

\* a GET answered by a reachable store returns what the generate request
\* with that id returned
C24_GetReturnsWhatPostReturned ==
  (fetched' # fetched /\ fetched'.outcome = "answer") =>
    \A r \in Succeeded :
      FrameOf(r).response.id = fetched'.path_id =>
        fetched'.response = FrameOf(r).response

\* no two generate requests were given the same id
C24_IdsDistinct ==
  \A r, q \in Succeeded :
    FrameOf(r).response.id = FrameOf(q).response.id => r = q

\* C24: a GET of the id that a successful POST /generate returned, issued
\* after it, returns the same topic, modules, youtube_recommendations and
\* quiz_questions, also when the insert failed and the stand-in record was
\* used; and two generate requests never receive the same id
C24_RoundTripThroughStore ==
  [][C24_GetReturnsWhatPostReturned /\ C24_IdsDistinct']_vars

\* ------------------------------------------------------------------ C25
\* the requests that have started and not yet finished
InFlight == { r \in Requests : FrameOf(r).pc \notin {"idle", "done"} }

\* the executing handler starts, ends, or does something in between
C25_GaugeStep ==
  running' = running =>
    IF pc = "idle" /\ pc' # "idle" THEN active_requests' = active_requests + 1
    ELSE IF pc # "done" /\ pc' = "done" THEN active_requests' = active_requests - 1
    ELSE active_requests' = active_requests

\* C25: under any interleaving the gauge equals the number of requests that
\* have started and not finished; it goes up by one when a request starts,
\* down by one when it ends with a response or with an error, is never
\* negative and is 0 when no request is in flight
C25_GaugeEqualsInFlight ==
  [][ /\ C25_GaugeStep
      /\ active_requests' = Cardinality(InFlight')
      /\ active_requests' >= 0
      /\ (InFlight' = {} => active_requests' = 0) ]_vars

\* one request has ended with an error inside enhance while another is
\* still in flight, and the gauge shows 1
C25_FailedWhileOtherInFlight ==
  /\ pc = "done"
  /\ response.status = 500
  /\ insert_calls = <<>>
  /\ active_requests = 1
  /\ \E r \in DOMAIN suspended : suspended[r].pc \in {"title", "subtopic", "fill"}

====
